---- MODULE Spec2Model ----
(***************************************************************************)
(* Verification model of ng-morph's template node layer:                   *)
(*   src/src/nodes/ng-ast-node/template/template-nodes.ts  (mutable tree)  *)
(*   src/src/nodes/ng-ast-node/template/tokenizer/ast.ts   (raw tree)      *)
(*                                                                         *)
(* A Template (the Document) owns one text buffer and the ordered token    *)
(* sequence; a token is identified by its index in that sequence.  Text is *)
(* a sequence of one-character strings, offsets are 0-based and spans are  *)
(* half-open [start, end).                                                 *)
(***************************************************************************)
EXTENDS Integers, Sequences, FiniteSets, TLC

VARIABLES
  text,      \* the Template's file text (what every LocationSpan points into)
  tokens,    \* the Template's ordered token sequence: [type, locationSpan]
  nodes,     \* TemplateNode objects: id -> [kind, tokens, children, attrs]
  roots,     \* Template.getRoots(): the ordered root-level nodes
  parent,    \* TemplateNode.parentTemplateNode of every node
  parentHist,\* per node: the first and the latest parent setTemplateParent was given
  lastText,  \* per node: <<newText>> of the latest changeText call on it, else <<>>
  calls,     \* number of direct _replaceTextByTokens calls made so far
  input,     \* the arguments drawn for the pure functions
  last       \* the latest call: [op, node, arg, threw, ret, pre]

vars == <<text, tokens, nodes, roots, parent, parentHist, lastText, calls, input, last>>

\* The value of an unset optional (JavaScript undefined).
undefined == "undefined"

-----------------------------------------------------------------------------
(* Bounds of the model. *)

\* Longest list of {token, newText} pairs handed to _replaceTextByTokens.
MaxPairs == 2
\* Number of direct _replaceTextByTokens calls explored one after another.
MaxCalls == 2

-----------------------------------------------------------------------------
(* Small arithmetic and sequence helpers. *)

RECURSIVE SumSeq(_)
SumSeq(s) == IF s = <<>> THEN 0 ELSE Head(s) + SumSeq(Tail(s))

Range(s) == {s[i] : i \in DOMAIN s}

\* Array.prototype.findIndex over the outcomes of the callback on each
\* element, 1-based; 0 stands for JavaScript's -1.
FindIndex(hits) ==
  IF \E i \in DOMAIN hits : hits[i]
    THEN CHOOSE i \in DOMAIN hits : hits[i] /\ \A j \in 1..(i - 1) : ~hits[j]
    ELSE 0

-----------------------------------------------------------------------------
(* LocationSpan, Token and Template: the collaborators of the node layer.   *)

\* LocationSpan.getLength
getLength(span) == span.end - span.start

\* LocationSpan.getText: the current rendering of the span.
getText(txt, span) == SubSeq(txt, span.start + 1, span.end)

\* Token.toString: the current rendering of the token.
TokenToString(d, i) == getText(d.text, d.tokens[i].locationSpan)

\* LocationSpan.replaceText on token i of document d: the text under the span
\* is replaced in the buffer and the span's end follows the new length.
replaceText(d, i, newText) ==
  LET span == d.tokens[i].locationSpan
  IN  [text   |-> SubSeq(d.text, 1, span.start) \o newText
                    \o SubSeq(d.text, span.end + 1, Len(d.text)),
       tokens |-> [d.tokens EXCEPT ![i].locationSpan.end = span.start + Len(newText)]]

\* LocationSpan.moveBy: both ends move by the signed delta.
moveBy(span, diff) == [start |-> span.start + diff, end |-> span.end + diff]

\* Template._forEachTokenAfter(token, fn, {inclusive}): the tokens fn is called
\* on, every token after token i in document order (and i itself when inclusive).
_forEachTokenAfter(toks, i, inclusive) ==
  {j \in DOMAIN toks : j > i \/ (inclusive /\ j = i)}

-----------------------------------------------------------------------------
(* TemplateNode._replaceTextByTokens                                        *)

\* Mutant of ReplaceOne: the edited token itself is shifted as well.
ReplaceOneInclusive(d, cfg) ==
  LET diff == Len(cfg.newText) - getLength(d.tokens[cfg.token].locationSpan)
      d1   == replaceText(d, cfg.token, cfg.newText)
      after == _forEachTokenAfter(d1.tokens, cfg.token, TRUE)
  IN  [text   |-> d1.text,
       tokens |-> [j \in DOMAIN d1.tokens |->
                     IF j \in after
                       THEN [d1.tokens[j] EXCEPT
                               !.locationSpan = moveBy(d1.tokens[j].locationSpan, diff)]
                       ELSE d1.tokens[j]]]

\* One iteration of the loop body: diff from the token's current length, the
\* text replaced, then every later token moved by diff.
ReplaceOne(d, cfg) ==
  LET diff == Len(cfg.newText) - getLength(d.tokens[cfg.token].locationSpan)
      d1   == replaceText(d, cfg.token, cfg.newText)
      after == _forEachTokenAfter(d1.tokens, cfg.token, FALSE)
  IN  [text   |-> d1.text,
       tokens |-> [j \in DOMAIN d1.tokens |->
                     IF j \in after
                       THEN [d1.tokens[j] EXCEPT
                               !.locationSpan = moveBy(d1.tokens[j].locationSpan, diff)]
                       ELSE d1.tokens[j]]]

\* Mutant of _replaceTextByTokens: the loop stops after the first pair.
ReplaceFirstPairOnly(d, textReplaceConfigs) ==
  IF textReplaceConfigs = <<>> THEN d
  ELSE ReplaceOne(d, Head(textReplaceConfigs))

RECURSIVE _replaceTextByTokens(_, _)
_replaceTextByTokens(d, textReplaceConfigs) ==
  IF textReplaceConfigs = <<>> THEN d
  ELSE _replaceTextByTokens(ReplaceOne(d, Head(textReplaceConfigs)),
                            Tail(textReplaceConfigs))

-----------------------------------------------------------------------------
(* The documents the model starts from.  A document is laid out from its    *)
(* lexical pieces; a GAP piece is text that belongs to no token.            *)

RECURSIVE LayoutText(_)
LayoutText(pieces) ==
  IF pieces = <<>> THEN <<>> ELSE Head(pieces).text \o LayoutText(Tail(pieces))

RECURSIVE LayoutTokens(_, _)
LayoutTokens(pieces, offset) ==
  IF pieces = <<>> THEN <<>>
  ELSE LET p    == Head(pieces)
           rest == LayoutTokens(Tail(pieces), offset + Len(p.text))
       IN  IF p.type = "GAP" THEN rest
           ELSE <<[type |-> p.type,
                   locationSpan |-> [start |-> offset, end |-> offset + Len(p.text)]]>>
                \o rest

Piece(type, txt) == [type |-> type, text |-> txt]

\* The source  <TAG a>TEXT<br/></TAG>z  for a tag name and an interpolation text.
Pieces(tag, txt) ==
  << Piece("TAG_OPEN_START", <<"<">> \o tag),
     Piece("GAP", <<" ">>),
     Piece("ATTR_NAME", <<"a">>),
     Piece("TAG_OPEN_END", <<">">>),
     Piece("TEXT", txt),
     Piece("TAG_OPEN_START", <<"<", "b", "r">>),
     Piece("TAG_OPEN_END_VOID", <<"/", ">">>),
     Piece("TAG_CLOSE", <<"<", "/">> \o tag \o <<">">>),
     Piece("TEXT", <<"z">>) >>

NodeIds == {"el", "attr", "interp", "br", "tail"}

\* The node objects built over that source: each with the tokens it was
\* constructed with, its children and its attribute list.
\* cached is the string the constructor stored (tagName, name or text).
BuiltNodes(tag, txt) ==
  [n \in NodeIds |->
     CASE n = "el"     -> [kind |-> "Element", tokens |-> <<1, 3, 7>>,
                           children |-> <<"interp", "br">>, attrs |-> <<"attr">>,
                           cached |-> tag]
       [] n = "attr"   -> [kind |-> "TextAttribute", tokens |-> <<2>>,
                           children |-> <<>>, attrs |-> <<>>, cached |-> <<"a">>]
       [] n = "interp" -> [kind |-> "Interpolation", tokens |-> <<4>>,
                           children |-> <<>>, attrs |-> <<>>, cached |-> txt]
       [] n = "br"     -> [kind |-> "Element", tokens |-> <<5, 6>>,
                           children |-> <<>>, attrs |-> <<>>, cached |-> <<"b", "r">>]
       [] n = "tail"   -> [kind |-> "Text", tokens |-> <<8>>,
                           children |-> <<>>, attrs |-> <<>>, cached |-> <<"z">>]]

BuiltRoots == <<"el", "tail">>

\* The parent links after the builder has linked every child to its parent.
LinkedParents ==
  [n \in NodeIds |->
     IF \E p \in NodeIds : n \in Range(BuiltNodes(<<>>, <<>>)[p].children)
       THEN CHOOSE p \in NodeIds : n \in Range(BuiltNodes(<<>>, <<>>)[p].children)
       ELSE undefined]

InitTags == { <<"p">>, <<"d", "i", "v">> }
InitTexts == { <<"x">>, <<" ", "x", " ">> }

NoCall == [op |-> "init"]

\* The current document as one value.
Doc == [text |-> text, tokens |-> tokens]

\* The state after parsing and building the source for (tag, txt).
InitDocument(tag, txt) ==
  /\ text = LayoutText(Pieces(tag, txt))
  /\ tokens = LayoutTokens(Pieces(tag, txt), 0)
  /\ nodes = BuiltNodes(tag, txt)
  /\ roots = BuiltRoots
  /\ lastText = [n \in NodeIds |-> <<>>]
  /\ calls = 0
  /\ input = undefined
  /\ last = NoCall

\* The parent links of a tree the builder has linked.
InitLinked ==
  /\ parent = LinkedParents
  /\ parentHist = [n \in NodeIds |->
                     [first |-> LinkedParents[n], latest |-> LinkedParents[n]]]

-----------------------------------------------------------------------------
(* Direct calls of the protected _replaceTextByTokens, as a subclass makes  *)
(* them: an ordered list of pairs over distinct tokens of the receiver.     *)

NewTexts == { <<>>, <<"q", "q", "q", "q", "q">> }

ConfigLists(n) ==
  LET cfgs == [token : Range(nodes[n].tokens), newText : NewTexts]
  IN  { l \in UNION { [1..k -> cfgs] : k \in 1..MaxPairs } :
          \A i, j \in DOMAIN l : i # j => l[i].token # l[j].token }

ReplaceTextByTokens(n, cfgs) ==
  /\ calls < MaxCalls
  /\ LET d == _replaceTextByTokens(Doc, cfgs)
     IN  /\ text' = d.text
         /\ tokens' = d.tokens
  /\ calls' = calls + 1
  /\ last' = [op |-> "_replaceTextByTokens", node |-> n, arg |-> cfgs,
              threw |-> FALSE, ret |-> undefined, pre |-> Doc]
  /\ UNCHANGED <<nodes, roots, parent, parentHist, lastText, input>>

CallReplaceTextByTokens ==
  \E n \in NodeIds : \E cfgs \in ConfigLists(n) : ReplaceTextByTokens(n, cfgs)

InitReplace ==
  /\ \E tag \in InitTags : InitDocument(tag, <<" ", "x", " ">>)
  /\ InitLinked
NextReplace == CallReplaceTextByTokens
SpecReplace == InitReplace /\ [][NextReplace]_vars

-----------------------------------------------------------------------------
(* Token lookup of a node and the public mutations built on                 *)
(* _replaceTextByTokens (checked under SpecEdit).                           *)

\* TemplateNode.getFirstTokenOfType: the first of the node's own tokens with
\* the type, as its index in the Template; 0 when there is none (undefined).
getFirstTokenOfType(toks, n, type) ==
  LET own == nodes[n].tokens
      idx == FindIndex([k \in DOMAIN own |-> toks[own[k]].type = type])
  IN  IF idx = 0 THEN 0 ELSE own[idx]

\* InterpolationTemplateNode.getTextToken (0: getFirstTokenOfTypeOrThrow throws)
getTextToken(toks, n) == getFirstTokenOfType(toks, n, "TEXT")

\* ElementLikeTemplateNode.getTagOpenStartToken / getTagEndToken
getTagOpenStartToken(toks, n) == getFirstTokenOfType(toks, n, "TAG_OPEN_START")
getTagEndToken(toks, n) == getFirstTokenOfType(toks, n, "TAG_CLOSE")

\* AttributeTemplateNode.getNameToken
getNameToken(toks, n) == getFirstTokenOfType(toks, n, "ATTR_NAME")

\* Mutant of Interpolation_getText: the text cached at construction.
Interpolation_getTextCached(d, n) == nodes[n].cached

\* InterpolationTemplateNode.getText: the rendering of the text token.
Interpolation_getText(d, n) == TokenToString(d, getTextToken(d.tokens, n))

WhiteSpace == {" ", "\t", "\n"}

RECURSIVE TrimStart(_)
TrimStart(s) ==
  IF s # <<>> /\ Head(s) \in WhiteSpace THEN TrimStart(Tail(s)) ELSE s

RECURSIVE TrimEnd(_)
TrimEnd(s) ==
  IF s # <<>> /\ s[Len(s)] \in WhiteSpace THEN TrimEnd(SubSeq(s, 1, Len(s) - 1)) ELSE s

\* Mutant of Trim: only leading white space is removed.
TrimLeadingOnly(s) == TrimStart(s)

\* String.prototype.trim as trimText uses it.
Trim(s) == TrimEnd(TrimStart(s))

\* The pair list changeText hands to _replaceTextByTokens.
changeTextConfigs(toks, n, newText) ==
  << [token |-> getTextToken(toks, n), newText |-> newText] >>

\* Mutant of changeTagNameConfigs: the close tag is written without its '>'.
changeTagNameConfigsNoGt(toks, n, newTagName) ==
  << [token |-> getTagOpenStartToken(toks, n), newText |-> <<"<">> \o newTagName],
     [token |-> getTagEndToken(toks, n), newText |-> <<"<", "/">> \o newTagName] >>

\* The pair list changeTagName hands to _replaceTextByTokens.
changeTagNameConfigs(toks, n, newTagName) ==
  << [token |-> getTagOpenStartToken(toks, n), newText |-> <<"<">> \o newTagName],
     [token |-> getTagEndToken(toks, n),
      newText |-> <<"<", "/">> \o newTagName \o <<">">>] >>

\* The pair list changeName hands to _replaceTextByTokens.
changeNameConfigs(toks, n, newName) ==
  << [token |-> getNameToken(toks, n), newText |-> newName] >>

\* A mutation that reaches _replaceTextByTokens and returns this.
Mutate(op, n, arg, cfgs) ==
  /\ LET d == _replaceTextByTokens(Doc, cfgs)
     IN  /\ text' = d.text
         /\ tokens' = d.tokens
  /\ last' = [op |-> op, node |-> n, arg |-> arg, cfgs |-> cfgs,
              threw |-> FALSE, ret |-> n, pre |-> Doc]

\* A call that throws while looking its tokens up: nothing is edited.
Throw(op, n, arg) ==
  /\ UNCHANGED <<text, tokens>>
  /\ last' = [op |-> op, node |-> n, arg |-> arg, cfgs |-> <<>>,
              threw |-> TRUE, ret |-> undefined, pre |-> Doc]

ChangeText(n, newText) ==
  /\ nodes[n].kind = "Interpolation"
  /\ IF getTextToken(tokens, n) = 0
       THEN Throw("changeText", n, newText) /\ UNCHANGED lastText
       ELSE /\ Mutate("changeText", n, newText, changeTextConfigs(tokens, n, newText))
            /\ lastText' = [lastText EXCEPT ![n] = <<newText>>]
  /\ UNCHANGED <<nodes, roots, parent, parentHist, calls, input>>

TrimText(n) ==
  /\ nodes[n].kind = "Interpolation"
  /\ IF getTextToken(tokens, n) = 0
       THEN Throw("trimText", n, <<>>) /\ UNCHANGED lastText
       ELSE LET trimmedText == Trim(Interpolation_getText(Doc, n))
            IN  /\ Mutate("trimText", n, trimmedText,
                          changeTextConfigs(tokens, n, trimmedText))
                /\ lastText' = [lastText EXCEPT ![n] = <<trimmedText>>]
  /\ UNCHANGED <<nodes, roots, parent, parentHist, calls, input>>

\* Mutant of ChangeTagName: the open tag is rewritten before the end token
\* is looked up, so a missing end token throws after the first edit.
ChangeTagNameEager(n, newTagName) ==
  /\ nodes[n].kind = "Element"
  /\ IF getTagOpenStartToken(tokens, n) = 0
       THEN Throw("changeTagName", n, newTagName)
       ELSE IF getTagEndToken(tokens, n) = 0
         THEN /\ LET d == ReplaceOne(Doc, [token |-> getTagOpenStartToken(tokens, n),
                                           newText |-> <<"<">> \o newTagName])
                 IN  /\ text' = d.text
                     /\ tokens' = d.tokens
              /\ last' = [op |-> "changeTagName", node |-> n, arg |-> newTagName,
                          cfgs |-> <<>>, threw |-> TRUE, ret |-> undefined,
                          pre |-> Doc]
         ELSE Mutate("changeTagName", n, newTagName,
                     changeTagNameConfigs(tokens, n, newTagName))
  /\ UNCHANGED <<nodes, roots, parent, parentHist, lastText, calls, input>>

ChangeTagName(n, newTagName) ==
  /\ nodes[n].kind = "Element"
  /\ IF getTagOpenStartToken(tokens, n) = 0 \/ getTagEndToken(tokens, n) = 0
       THEN Throw("changeTagName", n, newTagName)
       ELSE Mutate("changeTagName", n, newTagName,
                   changeTagNameConfigs(tokens, n, newTagName))
  /\ UNCHANGED <<nodes, roots, parent, parentHist, lastText, calls, input>>

AttributeKinds ==
  {"TextAttribute", "BoundAttribute", "BoundEvent", "BananaInTheBox", "Reference"}

ChangeName(n, newName) ==
  /\ nodes[n].kind \in AttributeKinds
  /\ IF getNameToken(tokens, n) = 0
       THEN Throw("changeName", n, newName)
       ELSE Mutate("changeName", n, newName, changeNameConfigs(tokens, n, newName))
  /\ UNCHANGED <<nodes, roots, parent, parentHist, lastText, calls, input>>

\* The arguments the mutations are called with.
MaxTextLen == 2
TextChars == {" ", "x"}
Texts == UNION { [1..k -> TextChars] : k \in 0..MaxTextLen }
TagNames == { <<"p">>, <<"d", "i", "v">>, <<"s", "p", "a", "n">> }
AttrNames == { <<"a">>, <<"b", "c">> }

CallChangeText == \E n \in NodeIds, newText \in Texts : ChangeText(n, newText)
CallTrimText == \E n \in NodeIds : TrimText(n)
CallChangeTagName == \E n \in NodeIds, name \in TagNames : ChangeTagName(n, name)
CallChangeName == \E n \in NodeIds, name \in AttrNames : ChangeName(n, name)

InitEdit ==
  /\ \E tag \in InitTags, txt \in InitTexts : InitDocument(tag, txt)
  /\ InitLinked
NextEdit == CallChangeText \/ CallTrimText \/ CallChangeTagName \/ CallChangeName
SpecEdit == InitEdit /\ [][NextEdit]_vars

-----------------------------------------------------------------------------
(* Attribute names: the document with its attribute built either as a text  *)
(* attribute  a  or as a reference  #a , mutated and then asked its name.   *)

\* The source  <TAG #a>TEXT<br/></TAG>z : the attribute is a reference.
ReferencePieces(tag, txt) ==
  [Pieces(tag, txt) EXCEPT ![3] = Piece("ATTR_NAME", <<"#", "a">>)]

\* The nodes built over it: the Reference node is constructed with the text #a.
ReferenceNodes(tag, txt) ==
  [BuiltNodes(tag, txt) EXCEPT !["attr"] =
     [kind |-> "Reference", tokens |-> <<2>>, children |-> <<>>,
      attrs |-> <<>>, cached |-> <<"#", "a">>]]

\* Mutant of Attribute_getName: the name is read from the name token's
\* current rendering.
Attribute_getNameLive(d, n) == TokenToString(d, getNameToken(d.tokens, n))

\* TextAttributeTemplateNode.getName returns this.name (so do the bound
\* attribute classes); ReferenceTemplateNode.getName returns this.text.slice(1).
Attribute_getName(d, n) ==
  IF nodes[n].kind = "Reference" THEN Tail(nodes[n].cached) ELSE nodes[n].cached

GetName(n) ==
  /\ nodes[n].kind \in AttributeKinds
  /\ last' = [op |-> "getName", node |-> n, arg |-> <<>>, cfgs |-> <<>>,
              threw |-> FALSE, ret |-> Attribute_getName(Doc, n), pre |-> Doc]
  /\ UNCHANGED <<text, tokens, nodes, roots, parent, parentHist, lastText, calls, input>>

CallGetName == \E n \in NodeIds : GetName(n)

\* input keeps the arguments the attribute node was constructed with.
InitFrame ==
  /\ \E reference \in BOOLEAN :
       LET tag == <<"p">>
           txt == <<"x">>
       IN  /\ text = LayoutText(IF reference THEN ReferencePieces(tag, txt)
                                ELSE Pieces(tag, txt))
           /\ tokens = LayoutTokens(IF reference THEN ReferencePieces(tag, txt)
                                    ELSE Pieces(tag, txt), 0)
           /\ nodes = (IF reference THEN ReferenceNodes(tag, txt)
                       ELSE BuiltNodes(tag, txt))
           /\ input = [kind |-> nodes["attr"].kind, name |-> nodes["attr"].cached]
  /\ roots = BuiltRoots
  /\ lastText = [n \in NodeIds |-> <<>>]
  /\ calls = 0
  /\ last = NoCall
  /\ InitLinked
NextFrame == CallChangeText \/ CallChangeTagName \/ CallChangeName \/ CallGetName
SpecFrame == InitFrame /\ [][NextFrame]_vars

-----------------------------------------------------------------------------
(* Parent link and sibling navigation (checked under SpecTree).             *)

\* Mutant of setTemplateParent: a parent that is set is never overwritten.
setTemplateParentOnce(par, n, templateParent) ==
  IF par[n] = undefined THEN [par EXCEPT ![n] = templateParent] ELSE par

\* TemplateNode.setTemplateParent: a plain assignment.
setTemplateParent(par, n, templateParent) == [par EXCEPT ![n] = templateParent]

\* TemplateNode.getTemplateParent
getTemplateParent(par, n) == par[n]

\* TemplateNode.getTemplateChildren: the children of an element-like node, the
\* empty list of every leaf kind.
getTemplateChildren(n) == nodes[n].children

\* The outcome of a call: a value returned or an error thrown.
Returned(v) == [threw |-> FALSE, ret |-> v]
Thrown == [threw |-> TRUE, ret |-> undefined]

\* children[nextIndex] of a JavaScript array: undefined past the end.
ElementAt(s, i) == IF i \in DOMAIN s THEN s[i] ELSE undefined

\* Mutant of getNextTemplateSibling: a node that is not found counts as last.
getNextTemplateSiblingLenient(par, n) ==
  LET children == IF getTemplateParent(par, n) # undefined
                    THEN getTemplateChildren(getTemplateParent(par, n))
                    ELSE roots
      index    == FindIndex([k \in DOMAIN children |-> children[k] = n])
  IN  IF index = 0 THEN Returned(undefined) ELSE Returned(ElementAt(children, index + 1))

\* TemplateNode.getNextTemplateSibling
getNextTemplateSibling(par, n) ==
  IF getTemplateParent(par, n) # undefined
    THEN LET children == getTemplateChildren(getTemplateParent(par, n))
             index    == FindIndex([k \in DOMAIN children |-> children[k] = n])
         IN  IF index = 0 THEN Thrown ELSE Returned(ElementAt(children, index + 1))
    ELSE LET children == roots
             index    == FindIndex([k \in DOMAIN children |-> children[k] = n])
         IN  IF index = 0 THEN Thrown ELSE Returned(ElementAt(children, index + 1))

\* utils.throwIfUndefined
throwIfUndefined(v) == IF v = undefined THEN Thrown ELSE Returned(v)

\* TemplateNode.getNextTemplateSiblingOrThrow
getNextTemplateSiblingOrThrow(par, n) ==
  LET r == getNextTemplateSibling(par, n)
  IN  IF r.threw THEN Thrown ELSE throwIfUndefined(r.ret)

\* A query: only its outcome is recorded.
Query(op, n, r) ==
  /\ last' = [op |-> op, node |-> n, arg |-> undefined, cfgs |-> <<>>,
              threw |-> r.threw, ret |-> r.ret, pre |-> Doc]
  /\ UNCHANGED <<text, tokens, nodes, roots, parent, parentHist, lastText, calls, input>>

SetTemplateParent(n, templateParent) ==
  /\ parent' = setTemplateParent(parent, n, templateParent)
  /\ parentHist' = [parentHist EXCEPT
                      ![n] = [first  |-> IF parentHist[n].first = undefined
                                           THEN templateParent ELSE parentHist[n].first,
                              latest |-> templateParent]]
  /\ last' = [op |-> "setTemplateParent", node |-> n, arg |-> templateParent,
              cfgs |-> <<>>, threw |-> FALSE, ret |-> undefined, pre |-> Doc]
  /\ UNCHANGED <<text, tokens, nodes, roots, lastText, calls, input>>

GetTemplateParent(n) == Query("getTemplateParent", n, Returned(getTemplateParent(parent, n)))

GetNextTemplateSibling(n) ==
  Query("getNextTemplateSibling", n, getNextTemplateSibling(parent, n))

GetNextTemplateSiblingOrThrow(n) ==
  Query("getNextTemplateSiblingOrThrow", n, getNextTemplateSiblingOrThrow(parent, n))

\* The nodes handed to setTemplateParent as a parent: the element-like ones.
ElementLikeNodes == {n \in NodeIds : nodes[n].kind = "Element"}

CallSetTemplateParent ==
  \E n \in NodeIds, p \in ElementLikeNodes : SetTemplateParent(n, p)
CallGetTemplateParent == \E n \in NodeIds : GetTemplateParent(n)
CallGetNextTemplateSibling == \E n \in NodeIds : GetNextTemplateSibling(n)
CallGetNextTemplateSiblingOrThrow == \E n \in NodeIds : GetNextTemplateSiblingOrThrow(n)

\* The nodes as constructed: no parent has been linked yet.
InitTree ==
  /\ InitDocument(<<"p">>, <<"x">>)
  /\ parent = [n \in NodeIds |-> undefined]
  /\ parentHist = [n \in NodeIds |-> [first |-> undefined, latest |-> undefined]]
NextTree ==
  \/ CallSetTemplateParent
  \/ CallGetTemplateParent
  \/ CallGetNextTemplateSibling
  \/ CallGetNextTemplateSiblingOrThrow
SpecTree == InitTree /\ [][NextTree]_vars

-----------------------------------------------------------------------------
(* Descendant queries (checked under SpecDesc) over trees of every shape.   *)

\* Largest number of nodes of a tree.
MaxTreeNodes == 4

TreeNames == <<"a", "b", "c", "d", "e", "f">>
TreeIds == {TreeNames[i] : i \in 1..MaxTreeNodes}

\* The trees on TreeIds rooted in "a": node i > 1 hangs under an earlier node
\* up[i]; rev tells whether child lists are in descending order of name.
TreeShapes == {up \in [2..MaxTreeNodes -> 1..MaxTreeNodes] : \A i \in 2..MaxTreeNodes : up[i] < i}

RECURSIVE ChildrenFrom(_, _, _)
ChildrenFrom(up, p, i) ==
  IF i > MaxTreeNodes THEN <<>>
  ELSE (IF up[i] = p THEN <<TreeNames[i]>> ELSE <<>>) \o ChildrenFrom(up, p, i + 1)

Reverse(s) == [i \in DOMAIN s |-> s[Len(s) + 1 - i]]

TreeNodes(up, rev) ==
  [n \in TreeIds |->
     LET p  == CHOOSE i \in 1..MaxTreeNodes : TreeNames[i] = n
         cs == ChildrenFrom(up, p, 2)
     IN  [kind |-> "Element", tokens |-> <<>>,
          children |-> IF rev THEN Reverse(cs) ELSE cs,
          attrs |-> <<>>, cached |-> <<>>]]

\* A predicate handed to a query: not given, or given and true of a set.
NoPredicate == [given |-> FALSE, holds |-> {}]
Predicates == {NoPredicate} \cup {[given |-> TRUE, holds |-> h] : h \in SUBSET TreeIds}

\* predicate != null && predicate(node)
Matches(predicate, node) == predicate.given /\ node \in predicate.holds

RECURSIVE getDescendantsLoop(_, _, _)
\* Mutant of getDescendantsLoop: the children of the visited node are put at
\* the front of the queue (depth-first).
getDescendantsLoopDepthFirst(queue, result, predicate) ==
  IF queue = <<>> THEN result
  ELSE LET node == Head(queue)
       IN  getDescendantsLoop(getTemplateChildren(node) \o Tail(queue),
                              IF Matches(predicate, node)
                                THEN Append(result, node) ELSE result,
                              predicate)

\* The while loop of getDescendants: the queue, the result so far.
getDescendantsLoop(queue, result, predicate) ==
  IF queue = <<>> THEN result
  ELSE LET node == Head(queue)
       IN  getDescendantsLoop(Tail(queue) \o getTemplateChildren(node),
                              IF Matches(predicate, node)
                                THEN Append(result, node) ELSE result,
                              predicate)

\* TemplateNode.getDescendants
getDescendants(n, predicate) == getDescendantsLoop(getTemplateChildren(n), <<>>, predicate)

RECURSIVE getDescendantLoop(_, _)
\* The while loop of getDescendant.
getDescendantLoop(queue, predicate) ==
  IF queue = <<>> THEN undefined
  ELSE LET node == Head(queue)
       IN  IF Matches(predicate, node) THEN node
           ELSE getDescendantLoop(Tail(queue) \o getTemplateChildren(node), predicate)

\* TemplateNode.getDescendant
getDescendant(n, predicate) == getDescendantLoop(getTemplateChildren(n), predicate)

QueryWith(op, n, predicate, r) ==
  /\ last' = [op |-> op, node |-> n, arg |-> predicate, cfgs |-> <<>>,
              threw |-> FALSE, ret |-> r, pre |-> Doc]
  /\ UNCHANGED <<text, tokens, nodes, roots, parent, parentHist, lastText, calls, input>>

GetDescendants(n, predicate) ==
  QueryWith("getDescendants", n, predicate, getDescendants(n, predicate))

GetDescendant(n, predicate) ==
  QueryWith("getDescendant", n, predicate, getDescendant(n, predicate))

CallGetDescendants == \E n \in DOMAIN nodes, q \in Predicates : GetDescendants(n, q)
CallGetDescendant == \E n \in DOMAIN nodes, q \in Predicates : GetDescendant(n, q)

InitDesc ==
  /\ \E up \in TreeShapes, rev \in BOOLEAN :
       /\ nodes = TreeNodes(up, rev)
       /\ parent = [n \in TreeIds |->
                      IF n = TreeNames[1] THEN undefined
                      ELSE TreeNames[up[CHOOSE i \in 2..MaxTreeNodes : TreeNames[i] = n]]]
  /\ parentHist = [n \in TreeIds |-> [first |-> parent[n], latest |-> parent[n]]]
  /\ roots = <<TreeNames[1]>>
  /\ text = <<>>
  /\ tokens = <<>>
  /\ lastText = [n \in TreeIds |-> <<>>]
  /\ calls = 0
  /\ input = undefined
  /\ last = NoCall
NextDesc == CallGetDescendants \/ CallGetDescendant
SpecDesc == InitDesc /\ [][NextDesc]_vars

-----------------------------------------------------------------------------
(* The raw parse tree of tokenizer/ast.ts and findNode (checked under       *)
(* SpecFind).  A raw tree is a function from node names to raw nodes.       *)

NoSpan == [present |-> FALSE, start |-> 0, end |-> 0]
Span(start, end) == [present |-> TRUE, start |-> start, end |-> end]

\* Element: locationSpan is the span of the start tag, endSourceSpan the span
\* of the end tag when there is one.
RawElement(locationSpan, attrs, children, endSourceSpan) ==
  [kind |-> "Element", locationSpan |-> locationSpan, attrs |-> attrs,
   children |-> children, cases |-> <<>>, endSourceSpan |-> endSourceSpan]

\* Text, Attribute, Comment and ExpansionCase: no node lists that are visited.
RawLeaf(kind, locationSpan) ==
  [kind |-> kind, locationSpan |-> locationSpan, attrs |-> <<>>,
   children |-> <<>>, cases |-> <<>>, endSourceSpan |-> NoSpan]

RawExpansion(locationSpan, cases) ==
  [kind |-> "Expansion", locationSpan |-> locationSpan, attrs |-> <<>>,
   children |-> <<>>, cases |-> cases, endSourceSpan |-> NoSpan]

\* <div><span>{{x}}</span></div>
ScenarioTree ==
  [top  |-> <<"div">>,
   node |-> [n \in {"div", "span", "interpolation"} |->
      CASE n = "div"  -> RawElement(Span(0, 5), <<>>, <<"span">>, Span(23, 29))
        [] n = "span" -> RawElement(Span(5, 11), <<>>, <<"interpolation">>, Span(16, 23))
        [] n = "interpolation" -> RawLeaf("Text", Span(11, 16))]]

\* <a b="c"><i></i>t<br></a><!--c-->
SiblingTree ==
  [top  |-> <<"a", "comment">>,
   node |-> [n \in {"a", "b", "i", "t", "br", "comment"} |->
      CASE n = "a"  -> RawElement(Span(0, 9), <<"b">>, <<"i", "t", "br">>, Span(22, 26))
        [] n = "b"  -> RawLeaf("Attribute", Span(3, 8))
        [] n = "i"  -> RawElement(Span(9, 12), <<>>, <<>>, Span(12, 16))
        [] n = "t"  -> RawLeaf("Text", Span(16, 17))
        [] n = "br" -> RawElement(Span(17, 21), <<>>, <<>>, NoSpan)
        [] n = "comment" -> RawLeaf("Comment", Span(26, 30))]]

\* <p><b>{n, plural, =0 {zero}}   (neither element is closed)
ExpansionTree ==
  [top  |-> <<"p">>,
   node |-> [n \in {"p", "b", "expansion", "case"} |->
      CASE n = "p" -> RawElement(Span(0, 3), <<>>, <<"b">>, NoSpan)
        [] n = "b" -> RawElement(Span(3, 6), <<>>, <<"expansion">>, NoSpan)
        [] n = "expansion" -> RawExpansion(Span(6, 29), <<"case">>)
        [] n = "case" -> RawLeaf("ExpansionCase", Span(18, 28))]]

\* A hand-built node list: the end tag of "outer" starts at 12, before the end
\* tag of its child "inner" (25), which holds "deep" (14, end tag at 20).
OverlapTree ==
  [top  |-> <<"outer", "after">>,
   node |-> [n \in {"outer", "inner", "deep", "after"} |->
      CASE n = "outer" -> RawElement(Span(0, 7), <<>>, <<"inner">>, Span(12, 20))
        [] n = "inner" -> RawElement(Span(7, 14), <<>>, <<"deep">>, Span(25, 30))
        [] n = "deep"  -> RawElement(Span(14, 18), <<>>, <<>>, Span(20, 25))
        [] n = "after" -> RawElement(Span(30, 33), <<>>, <<>>, Span(33, 37))]]

RawTrees == {ScenarioTree, SiblingTree, ExpansionTree, OverlapTree}

\* Largest offset findNode is asked about.
MaxPosition == 30

RECURSIVE spanOf(_, _)
\* spanOf: end starts out as the node's start; only an Element moves it, to the
\* start of its end tag or else to the end of its last child's span.
spanOf(tree, ast) ==
  LET node  == tree.node[ast]
      start == node.locationSpan.start
  IN  IF node.kind = "Element"
        THEN IF node.endSourceSpan.present
               THEN [start |-> start, end |-> node.endSourceSpan.start]
               ELSE IF Len(node.children) > 0
                      THEN [start |-> start,
                            end |-> spanOf(tree, node.children[Len(node.children)]).end]
                      ELSE [start |-> start, end |-> start]
        ELSE [start |-> start, end |-> start]

RECURSIVE findNodeVisitAll(_, _, _)
RECURSIVE findNodeVisit(_, _, _)

\* visitAll with findNode's visitor over a node list: the nodes pushed to path.
findNodeVisitAll(tree, asts, position) ==
  IF asts = <<>> THEN <<>>
  ELSE findNodeVisit(tree, Head(asts), position)
         \o findNodeVisitAll(tree, Tail(asts), position)

\* Mutant of findNodeVisit: the hook never prunes; a node outside the position
\* is not pushed but its attributes, children and cases are still visited.
findNodeVisitNoPrune(tree, ast, position) ==
  LET span == spanOf(tree, ast)
      node == tree.node[ast]
  IN  (IF span.start <= position /\ position < span.end THEN <<ast>> ELSE <<>>)
        \o (CASE node.kind = "Element" ->
                    findNodeVisitAll(tree, node.attrs, position)
                      \o findNodeVisitAll(tree, node.children, position)
               [] node.kind = "Expansion" ->
                    findNodeVisitAll(tree, node.cases, position)
               [] OTHER -> <<>>)

\* visitor.visit(ast) || ast.visit(visitor): the hook pushes the node and lets
\* the dispatch go on (attrs then children of an Element, cases of an
\* Expansion), or returns true and the dispatch is skipped.
findNodeVisit(tree, ast, position) ==
  LET span == spanOf(tree, ast)
      node == tree.node[ast]
  IN  IF span.start <= position /\ position < span.end
        THEN <<ast>> \o
             (CASE node.kind = "Element" ->
                     findNodeVisitAll(tree, node.attrs, position)
                       \o findNodeVisitAll(tree, node.children, position)
                [] node.kind = "Expansion" ->
                     findNodeVisitAll(tree, node.cases, position)
                [] OTHER -> <<>>)
        ELSE <<>>

\* findNode(nodes, position): the path of the AstPath it returns.
findNode(tree, position) == findNodeVisitAll(tree, tree.top, position)

FindNode ==
  /\ last.op = "init"
  /\ last' = [op |-> "findNode", node |-> undefined, arg |-> input, cfgs |-> <<>>,
              threw |-> FALSE, ret |-> findNode(input.tree, input.position), pre |-> Doc]
  /\ UNCHANGED <<text, tokens, nodes, roots, parent, parentHist, lastText, calls, input>>

\* No template is involved in a pure function's run.
InitNoTemplate ==
  /\ text = <<>>
  /\ tokens = <<>>
  /\ nodes = <<>>
  /\ roots = <<>>
  /\ parent = <<>>
  /\ parentHist = <<>>
  /\ lastText = <<>>
  /\ calls = 0
  /\ last = NoCall

InitFind ==
  /\ InitNoTemplate
  /\ \E tree \in RawTrees, position \in 0..MaxPosition :
       input = [tree |-> tree, position |-> position]
NextFind == FindNode
SpecFind == InitFind /\ [][NextFind]_vars

-----------------------------------------------------------------------------
(* The attribute partition of the ElementLikeTemplateNode constructor       *)
(* (checked under SpecAttrs).                                               *)

\* Longest attribute list a node is constructed with.
MaxAttrs == 3

\* What may sit in allAttributes at run time: the five attribute classes, or
\* an object of another class.
AttributeObjectKinds == AttributeKinds \cup {"Element"}

\* The attribute lists: the i-th object of a list has identity i.
AttributeLists ==
  UNION { {[i \in 1..k |-> [id |-> i, kind |-> kinds[i]]] :
             kinds \in [1..k -> AttributeObjectKinds]} : k \in 0..MaxAttrs }

\* template-nodes-type-guards
isTextAttribute(a) == a.kind = "TextAttribute"
isBoundAttribute(a) == a.kind = "BoundAttribute"
isBoundEvent(a) == a.kind = "BoundEvent"
isBananaInTheBox(a) == a.kind = "BananaInTheBox"
isReference(a) == a.kind = "Reference"

\* The five empty buckets of the field initialisers.
EmptyBuckets ==
  [textAttributes |-> <<>>, boundAttributes |-> <<>>, boundEvents |-> <<>>,
   bananaInTheBoxes |-> <<>>, references |-> <<>>, threw |-> FALSE]

\* Mutant of Classify: the if chain has no branch for references.
ClassifyNoReferences(b, attribute) ==
  IF isTextAttribute(attribute)
    THEN [b EXCEPT !.textAttributes = Append(@, attribute)]
  ELSE IF isBoundAttribute(attribute)
    THEN [b EXCEPT !.boundAttributes = Append(@, attribute)]
  ELSE IF isBoundEvent(attribute)
    THEN [b EXCEPT !.boundEvents = Append(@, attribute)]
  ELSE IF isBananaInTheBox(attribute)
    THEN [b EXCEPT !.bananaInTheBoxes = Append(@, attribute)]
  ELSE [b EXCEPT !.threw = TRUE]

\* The body of the constructor's loop: the if / else-if chain.
Classify(b, attribute) ==
  IF isTextAttribute(attribute)
    THEN [b EXCEPT !.textAttributes = Append(@, attribute)]
  ELSE IF isBoundAttribute(attribute)
    THEN [b EXCEPT !.boundAttributes = Append(@, attribute)]
  ELSE IF isBoundEvent(attribute)
    THEN [b EXCEPT !.boundEvents = Append(@, attribute)]
  ELSE IF isBananaInTheBox(attribute)
    THEN [b EXCEPT !.bananaInTheBoxes = Append(@, attribute)]
  ELSE IF isReference(attribute)
    THEN [b EXCEPT !.references = Append(@, attribute)]
  ELSE [b EXCEPT !.threw = TRUE]

RECURSIVE PartitionAttributes(_, _)
\* The constructor's loop over allAttributes; it ends at the first throw.
PartitionAttributes(allAttributes, b) ==
  IF allAttributes = <<>> \/ b.threw THEN b
  ELSE PartitionAttributes(Tail(allAttributes), Classify(b, Head(allAttributes)))

ConstructElementLike ==
  /\ last.op = "init"
  /\ LET b == PartitionAttributes(input, EmptyBuckets)
     IN  last' = [op |-> "new ElementLikeTemplateNode", node |-> undefined,
                  arg |-> input, cfgs |-> <<>>, threw |-> b.threw,
                  ret |-> b, pre |-> Doc]
  /\ UNCHANGED <<text, tokens, nodes, roots, parent, parentHist, lastText, calls, input>>

InitAttrs ==
  /\ InitNoTemplate
  /\ input \in AttributeLists
NextAttrs == ConstructElementLike
SpecAttrs == InitAttrs /\ [][NextAttrs]_vars

-----------------------------------------------------------------------------
(* Claims about _replaceTextByTokens (checked under SpecReplace).           *)

IsReplaceCall == last.op = "_replaceTextByTokens"

\* Span of token i before the latest call, and the length delta of one pair.
PreSpan(i) == last.pre.tokens[i].locationSpan
Delta(cfg) == Len(cfg.newText) - getLength(PreSpan(cfg.token))

\* C1: after a call that replaces the text of one token T (old span length L0,
\* new text of length L1), every token strictly after T has its start offset
\* increased by exactly L1 - L0, T's span has length L1 and its old start, and
\* no token before T has any change to its span.
C1_OffsetShift ==
  (IsReplaceCall /\ Len(last.arg) = 1) =>
    LET T  == last.arg[1].token
        L1 == Len(last.arg[1].newText)
        L0 == getLength(PreSpan(T))
    IN  /\ \A j \in DOMAIN tokens :
             j > T => tokens[j].locationSpan.start = PreSpan(j).start + (L1 - L0)
        /\ getLength(tokens[T].locationSpan) = L1
        /\ tokens[T].locationSpan.start = PreSpan(T).start
        /\ \A j \in DOMAIN tokens : j < T => tokens[j].locationSpan = PreSpan(j)

\* Witness of C1: a single edit with a non-zero delta on a token that has
\* tokens before it and after it.
C1_Witness ==
  /\ IsReplaceCall
  /\ Len(last.arg) = 1
  /\ Delta(last.arg[1]) # 0
  /\ last.arg[1].token > 1
  /\ last.arg[1].token < Len(tokens)

\* C2: after a call with a list of pairs on distinct tokens, the start offset
\* of every token X is its start before the call plus the sum of the deltas of
\* the edited tokens strictly before X in document order, and every edited
\* token's length is the length of its new text.
C2_CumulativeShift ==
  IsReplaceCall =>
    /\ \A x \in DOMAIN tokens :
         tokens[x].locationSpan.start =
           PreSpan(x).start
             + SumSeq([i \in DOMAIN last.arg |->
                         IF last.arg[i].token < x THEN Delta(last.arg[i]) ELSE 0])
    /\ \A i \in DOMAIN last.arg :
         getLength(tokens[last.arg[i].token].locationSpan) = Len(last.arg[i].newText)

\* Witness of C2: two edits in one call, given against document order, both
\* with a non-zero delta, on a document an earlier call has already edited.
C2_Witness ==
  /\ IsReplaceCall
  /\ calls = 2
  /\ Len(last.arg) = 2
  /\ last.arg[1].token > last.arg[2].token
  /\ Delta(last.arg[1]) > 0
  /\ Delta(last.arg[2]) < 0
  /\ last.pre.text # LayoutText(Pieces(<<"p">>, <<"x">>))

-----------------------------------------------------------------------------
(* Claims about the public mutations (checked under SpecEdit).              *)

\* The rendering of token i before the latest call.
PreString(i) == getText(last.pre.text, PreSpan(i))

\* C3: changeTagName(name) hands _replaceTextByTokens the open-tag token with
\* '<' + name and then the close-tag token with '</' + name + '>'; afterwards
\* the two tokens render those texts, the close-tag token has moved by the
\* open-tag delta and every token after it by the sum of both deltas.  For
\* tags '<div' and '</div>' and name 'span' both deltas are +1, the close-tag
\* token starts 1 later and every token after it sits 2 later.
C3_TagRename ==
  (last.op = "changeTagName" /\ ~last.threw) =>
    LET name    == last.arg
        open    == getTagOpenStartToken(tokens, last.node)
        close   == getTagEndToken(tokens, last.node)
        newOpen == <<"<">> \o name
        newClose == <<"<", "/">> \o name \o <<">">>
        d1      == Len(newOpen) - getLength(PreSpan(open))
        d2      == Len(newClose) - getLength(PreSpan(close))
    IN  /\ last.cfgs = << [token |-> open, newText |-> newOpen],
                          [token |-> close, newText |-> newClose] >>
        /\ TokenToString(Doc, open) = newOpen
        /\ TokenToString(Doc, close) = newClose
        /\ tokens[open].locationSpan.start = PreSpan(open).start
        /\ tokens[close].locationSpan.start = PreSpan(close).start + d1
        /\ \A j \in DOMAIN tokens :
             j > close => /\ tokens[j].locationSpan.start = PreSpan(j).start + d1 + d2
                          /\ tokens[j].locationSpan.end = PreSpan(j).end + d1 + d2
        /\ ( /\ PreString(open) = <<"<", "d", "i", "v">>
             /\ PreString(close) = <<"<", "/", "d", "i", "v", ">">>
             /\ name = <<"s", "p", "a", "n">> )
           => /\ d1 = 1
              /\ d2 = 1
              /\ TokenToString(Doc, open) = <<"<", "s", "p", "a", "n">>
              /\ TokenToString(Doc, close) = <<"<", "/", "s", "p", "a", "n", ">">>
              /\ tokens[close].locationSpan.start = PreSpan(close).start + 1
              /\ \A j \in DOMAIN tokens :
                   j > close => tokens[j].locationSpan.end = PreSpan(j).end + 2

\* Witness of C3: 'div' has been renamed to 'span' on an element that has a
\* token after its close tag.
C3_Witness ==
  /\ last.op = "changeTagName"
  /\ ~last.threw
  /\ last.arg = <<"s", "p", "a", "n">>
  /\ PreString(getTagOpenStartToken(tokens, last.node)) = <<"<", "d", "i", "v">>
  /\ PreString(getTagEndToken(tokens, last.node)) = <<"<", "/", "d", "i", "v", ">">>
  /\ getTagEndToken(tokens, last.node) < Len(tokens)

\* A text with no white space at either end.
IsTrimmed(s) == s = <<>> \/ (Head(s) \notin WhiteSpace /\ s[Len(s)] \notin WhiteSpace)

\* C7: trimText() on a text token whose current text is already trimmed leaves
\* every token's span and the text as they were; and the text trimText() leaves
\* behind is trimmed, so a second trimText() is such a zero-delta edit.
C7_IdempotentTrim ==
  (last.op = "trimText" /\ ~last.threw) =>
    LET tok == getTextToken(tokens, last.node)
    IN  /\ IsTrimmed(TokenToString(Doc, tok))
        /\ IsTrimmed(PreString(tok)) => Doc = last.pre

\* Witness of C7: trimText() has run on an already trimmed, non-empty text that
\* an earlier trimText() produced.
C7_Witness ==
  /\ last.op = "trimText"
  /\ ~last.threw
  /\ PreString(getTextToken(tokens, last.node)) = <<"x">>
  /\ nodes[last.node].cached = <<" ", "x", " ">>
  /\ lastText[last.node] = << <<"x">> >>

\* C8: once changeText has been called on an interpolation, getText() is the
\* newText of the latest call, whatever edits of other nodes came in between.
C8_LiveText ==
  \A n \in NodeIds :
    (nodes[n].kind = "Interpolation" /\ lastText[n] # <<>>) =>
      Interpolation_getText(Doc, n) = lastText[n][1]

\* Witness of C8: the text token was rewritten to something else than the text
\* given at construction, and the latest call is a tag rename of the enclosing
\* element that moved the token.
C8_Witness ==
  \E n \in NodeIds :
    /\ nodes[n].kind = "Interpolation"
    /\ lastText[n] # <<>>
    /\ lastText[n][1] # nodes[n].cached
    /\ last.op = "changeTagName"
    /\ ~last.threw
    /\ tokens[getTextToken(tokens, n)].locationSpan.start
         # PreSpan(getTextToken(tokens, n)).start

-----------------------------------------------------------------------------
(* Claims about the parent link and siblings (checked under SpecTree).      *)

\* C9 as stated: once a parent has been set on a node, getTemplateParent()
\* never returns a different one than that first parent.
C9_WriteOnce ==
  \A n \in NodeIds :
    parentHist[n].first # undefined => getTemplateParent(parent, n) = parentHist[n].first

\* C9 as amended: setTemplateParent is a plain setter, so a node's parent is
\* the one given to the latest setTemplateParent call on it (none before the
\* first call), getTemplateParent() returns exactly that, and no other
\* operation changes it.
C9_LatestParent ==
  /\ \A n \in NodeIds : parent[n] = parentHist[n].latest
  /\ last.op = "getTemplateParent" => last.ret = parentHist[last.node].latest
  /\ last.op = "setTemplateParent" => getTemplateParent(parent, last.node) = last.arg

\* Witness of C9: a node whose parent was set twice, to different parents.
C9_Witness ==
  /\ last.op = "getTemplateParent"
  /\ parentHist[last.node].first # undefined
  /\ parentHist[last.node].first # parentHist[last.node].latest

\* The list getNextTemplateSibling searches for node n.
SiblingList(n) == IF parent[n] # undefined THEN nodes[parent[n]].children ELSE roots

\* C10: getNextTemplateSibling() looks the node up in its parent's children, or
\* in the Template's roots when it has no parent; it returns the element after
\* the node, undefined when the node is last, and throws when the node is not
\* in that list.  getNextTemplateSiblingOrThrow() throws exactly when
\* getNextTemplateSibling() would return undefined or throw, and otherwise
\* returns the same node.
C10_NextSibling ==
  /\ last.op = "getNextTemplateSibling" =>
       LET list == SiblingList(last.node)
       IN  IF last.node \notin Range(list)
             THEN last.threw
             ELSE /\ ~last.threw
                  /\ \E i \in DOMAIN list :
                       /\ list[i] = last.node
                       /\ \A j \in 1..(i - 1) : list[j] # last.node
                       /\ last.ret = IF i = Len(list) THEN undefined ELSE list[i + 1]
  /\ last.op = "getNextTemplateSiblingOrThrow" =>
       LET list == SiblingList(last.node)
           plain == getNextTemplateSibling(parent, last.node)
       IN  /\ last.threw <=> (plain.threw \/ plain.ret = undefined)
           /\ last.threw <=> ( \/ last.node \notin Range(list)
                               \/ list[Len(list)] = last.node )
           /\ ~last.threw => last.ret = plain.ret

\* Witness of C10: getNextTemplateSiblingOrThrow() has thrown on a node whose
\* parent does not list it among its children, although that parent has
\* children.
C10_Witness ==
  /\ last.op = "getNextTemplateSiblingOrThrow"
  /\ last.threw
  /\ parent[last.node] # undefined
  /\ nodes[parent[last.node]].children # <<>>
  /\ last.node \notin Range(nodes[parent[last.node]].children)

-----------------------------------------------------------------------------
(* Claims about descendant queries (checked under SpecDesc).                *)

RECURSIVE DescendantSet(_)
\* Every node reachable from n through getTemplateChildren(), n excluded.
DescendantSet(n) ==
  UNION { {c} \cup DescendantSet(c) : c \in Range(nodes[n].children) }

\* C4 as stated: getDescendants() without a predicate returns all descendants
\* of the node, and getDescendant() without a predicate returns the node's
\* first child when it has children.
C4_UnfilteredAll ==
  /\ (last.op = "getDescendants" /\ ~last.arg.given) =>
       /\ Range(last.ret) = DescendantSet(last.node)
       /\ Len(last.ret) = Cardinality(DescendantSet(last.node))
  /\ (last.op = "getDescendant" /\ ~last.arg.given /\ nodes[last.node].children # <<>>) =>
       last.ret = nodes[last.node].children[1]

-----------------------------------------------------------------------------
(* Claims about findNode (checked under SpecFind).                          *)

\* C5 as stated: in the raw tree of <div><span>{{x}}</span></div>, for a
\* position inside {{x}} (offsets 11 to 15), findNode returns the path
\* [div, span, interpolation].
C5_ReachesLeaf ==
  ( /\ last.op = "findNode"
    /\ last.arg.tree = ScenarioTree
    /\ last.arg.position \in 11..15 )
  => last.ret = <<"div", "span", "interpolation">>

-----------------------------------------------------------------------------
(* Claims about the attribute partition (checked under SpecAttrs).          *)

BucketNames ==
  {"textAttributes", "boundAttributes", "boundEvents", "bananaInTheBoxes", "references"}

\* The bucket the attribute classes belong to.
BucketOf(kind) ==
  CASE kind = "TextAttribute"  -> "textAttributes"
    [] kind = "BoundAttribute" -> "boundAttributes"
    [] kind = "BoundEvent"     -> "boundEvents"
    [] kind = "BananaInTheBox" -> "bananaInTheBoxes"
    [] kind = "Reference"      -> "references"

\* C6: construction from an attribute list throws exactly when some attribute
\* is of none of the five classes; otherwise the five buckets are pairwise
\* disjoint, hold every attribute of the list exactly once between them, each
\* in the bucket of its class and in list order.
C6_Partition ==
  last.op = "new ElementLikeTemplateNode" =>
    LET all == last.arg
        b   == last.ret
    IN  IF \E i \in DOMAIN all : all[i].kind \notin AttributeKinds
          THEN last.threw
          ELSE /\ ~last.threw
               /\ \A x, y \in BucketNames : x # y => Range(b[x]) \cap Range(b[y]) = {}
               /\ UNION {Range(b[x]) : x \in BucketNames} = Range(all)
               /\ SumSeq([i \in 1..5 |->
                     Len(b[<<"textAttributes", "boundAttributes", "boundEvents",
                             "bananaInTheBoxes", "references">>[i]])]) = Len(all)
               /\ \A x \in BucketNames :
                    b[x] = SelectSeq(all, LAMBDA a : BucketOf(a.kind) = x)

\* Witness of C6: a node constructed from a two-way binding, a reference and a
\* text attribute.
C6_Witness ==
  /\ last.op = "new ElementLikeTemplateNode"
  /\ ~last.threw
  /\ {last.arg[i].kind : i \in DOMAIN last.arg} = {"BananaInTheBox", "Reference", "TextAttribute"}
  /\ Len(last.ret.bananaInTheBoxes) = 1

-----------------------------------------------------------------------------
(* Claims about the pruned traversal of findNode (checked under SpecFind).  *)

\* spanOf(n) contains the position: start <= position < end.
SpanContains(tree, n, position) ==
  spanOf(tree, n).start <= position /\ position < spanOf(tree, n).end

\* The lists of a raw node the recursive visitor walks, in its order.
RawSubNodes(tree, n) == tree.node[n].attrs \o tree.node[n].children \o tree.node[n].cases

RECURSIVE PreOrderAll(_, _)
\* Every node under a node list, each node before the nodes below it.
PreOrderAll(tree, asts) ==
  IF asts = <<>> THEN <<>>
  ELSE <<Head(asts)>> \o PreOrderAll(tree, RawSubNodes(tree, Head(asts)))
         \o PreOrderAll(tree, Tail(asts))

RECURSIVE RawAncestors(_, _)
\* The nodes above n on the traversal path.
RawAncestors(tree, n) ==
  UNION { {p} \cup RawAncestors(tree, p) :
            p \in {q \in DOMAIN tree.node : n \in Range(RawSubNodes(tree, q))} }

\* C11: findNode records exactly the nodes whose spanOf contains the position
\* and whose ancestors' spanOf all contain it (nothing below a node that does
\* not contain the position is recorded), each once, in visit order, so that
\* an ancestor comes before its descendants.
C11_PrunedLookup ==
  last.op = "findNode" =>
    LET tree == last.arg.tree
        pos  == last.arg.position
        path == last.ret
    IN  /\ path = SelectSeq(PreOrderAll(tree, tree.top),
                    LAMBDA n : /\ SpanContains(tree, n, pos)
                               /\ \A a \in RawAncestors(tree, n) : SpanContains(tree, a, pos))
        /\ \A n \in DOMAIN tree.node :
             (\E a \in RawAncestors(tree, n) : ~SpanContains(tree, a, pos))
               => n \notin Range(path)
        /\ \A i, j \in DOMAIN path :
             (i # j => path[i] # path[j])
             /\ (path[i] \in RawAncestors(tree, path[j]) => i < j)

\* Witness of C11: a node outside the position was pruned although nodes
\* below it contain the position, so nothing was recorded.
C11_Witness ==
  /\ last.op = "findNode"
  /\ last.ret = <<>>
  /\ \E n \in DOMAIN last.arg.tree.node :
       /\ SpanContains(last.arg.tree, n, last.arg.position)
       /\ \E a \in RawAncestors(last.arg.tree, n) :
            ~SpanContains(last.arg.tree, a, last.arg.position)

-----------------------------------------------------------------------------
(* Claims about the filtered descendant queries (checked under SpecDesc).   *)

RECURSIVE ChildrenOfAll(_)
\* The child lists of the nodes of one level, joined in the level's order.
ChildrenOfAll(level) ==
  IF level = <<>> THEN <<>>
  ELSE nodes[Head(level)].children \o ChildrenOfAll(Tail(level))

RECURSIVE LevelOrderFrom(_)
\* A level, then the level below it, and so on.
LevelOrderFrom(level) ==
  IF level = <<>> THEN <<>> ELSE level \o LevelOrderFrom(ChildrenOfAll(level))

RECURSIVE DepthBelow(_, _)
\* The number of getTemplateChildren() steps from n down to its descendant m.
DepthBelow(n, m) ==
  IF m \in Range(nodes[n].children) THEN 1
  ELSE 1 + DepthBelow(CHOOSE c \in Range(nodes[n].children) : m \in DescendantSet(c), m)

\* C12: with a predicate p, getDescendants(p) returns exactly the descendants
\* of the receiver that satisfy p, each once and never the receiver, in
\* breadth-first order (a node at depth d before any node at depth d+1,
\* siblings in child-list order); getDescendant(p) returns the first element
\* of that list, or undefined when the list is empty.  Both calls return.
C12_BreadthFirst ==
  LET n        == last.node
      expected == SelectSeq(LevelOrderFrom(nodes[n].children),
                            LAMBDA m : m \in last.arg.holds)
  IN  /\ (last.op = "getDescendants" /\ last.arg.given) =>
           /\ last.ret = expected
           /\ Range(last.ret) = DescendantSet(n) \cap last.arg.holds
           /\ Len(last.ret) = Cardinality(Range(last.ret))
           /\ n \notin Range(last.ret)
           /\ \A i, j \in DOMAIN last.ret :
                i < j =>
                  /\ DepthBelow(n, last.ret[i]) <= DepthBelow(n, last.ret[j])
                  /\ \A q \in DOMAIN nodes :
                       LET kids == nodes[q].children
                       IN  \A a, b \in DOMAIN kids :
                             (kids[a] = last.ret[i] /\ kids[b] = last.ret[j]) => a < b
      /\ (last.op = "getDescendant" /\ last.arg.given) =>
           /\ last.ret = (IF expected = <<>> THEN undefined ELSE expected[1])
           /\ last.ret = (IF getDescendants(n, last.arg) = <<>> THEN undefined
                          ELSE getDescendants(n, last.arg)[1])

\* Witness of C12: the receiver satisfies the predicate and is not returned,
\* and a child of the first result comes after the first result's sibling.
C12_Witness ==
  /\ last.op = "getDescendants"
  /\ last.arg.given
  /\ last.node \in last.arg.holds
  /\ Len(last.ret) = 3
  /\ last.ret[2] \in Range(nodes[last.node].children)
  /\ last.ret[3] \in Range(nodes[last.ret[1]].children)
  /\ DescendantSet(last.node) \ last.arg.holds = {}

-----------------------------------------------------------------------------
(* Claims about failed and successful mutations (checked under SpecEdit).   *)

\* The element the last call was made on lacked a token changeTagName needs.
LacksTagToken ==
  \/ getTagOpenStartToken(last.pre.tokens, last.node) = 0
  \/ getTagEndToken(last.pre.tokens, last.node) = 0

\* C13: changeTagName on an element whose own tokens hold no TAG_OPEN_START
\* token or no TAG_CLOSE token throws before any edit: the buffer, the text
\* the open-tag token renders and every token's span are as before the call.
C13_AllOrNothing ==
  (last.op = "changeTagName" /\ LacksTagToken) =>
    /\ last.threw
    /\ text = last.pre.text
    /\ \A i \in DOMAIN tokens :
         /\ tokens[i].locationSpan = last.pre.tokens[i].locationSpan
         /\ TokenToString(Doc, i) = TokenToString(last.pre, i)
    /\ DOMAIN tokens = DOMAIN last.pre.tokens

\* Witness of C13: changeTagName was called on an element that has an open
\* tag but no closing tag, with a name its open tag does not render.
C13_Witness ==
  /\ last.op = "changeTagName"
  /\ last.threw
  /\ getTagOpenStartToken(tokens, last.node) # 0
  /\ getTagEndToken(tokens, last.node) = 0
  /\ TokenToString(Doc, getTagOpenStartToken(tokens, last.node)) # <<"<">> \o last.arg

-----------------------------------------------------------------------------
(* Claims about what a mutation leaves alone (checked under SpecFrame).     *)

FrameMutations == {"changeName", "changeText", "changeTagName"}

\* The name the attribute was constructed with: for a reference, its text
\* without the leading #.
ConstructedName ==
  IF input.kind = "Reference" THEN Tail(input.name) ELSE input.name

\* The first token a call rewrites (0 when it throws).
FirstEdited(cfgs) == IF cfgs = <<>> THEN 0 ELSE cfgs[1].token

\* C14: a step of changeName, changeText or changeTagName changes token spans
\* only, from the edited token on: every node's parent link, child list,
\* attribute list, token list and cached constructor values, the root list
\* and the tokens' types stay as they were.  After changeName(n) the
\* attribute's getName() is still the name given at construction (for a
\* reference, its text without the leading #) while the name token renders n,
\* and getName() returns the constructed name after any mutations.
C14_Frame ==
  [][ /\ (last'.op \in FrameMutations) =>
           /\ nodes' = nodes
           /\ roots' = roots
           /\ parent' = parent
           /\ DOMAIN tokens' = DOMAIN tokens
           /\ \A i \in DOMAIN tokens :
                /\ tokens'[i].type = tokens[i].type
                /\ (last'.threw \/ i < FirstEdited(last'.cfgs))
                     => tokens'[i] = tokens[i]
      /\ (last'.op = "changeName" /\ ~last'.threw) =>
           /\ \A n \in NodeIds :
                n = last'.node => Attribute_getName(Doc, n)' = ConstructedName
           /\ TokenToString(Doc', getNameToken(tokens', last'.node)) = last'.arg
      /\ (last'.op = "getName") => last'.ret = ConstructedName
    ]_vars

\* Witness of C14: a reference was renamed to a name other than the one it
\* was constructed with and then asked its name; its name token renders the
\* new name.
C14_Witness ==
  /\ last.op = "getName"
  /\ nodes[last.node].kind = "Reference"
  /\ last.ret = <<"a">>
  /\ TokenToString(Doc, getNameToken(tokens, last.node)) = <<"b", "c">>

====
